---- MODULE Spec2Model ----
(***************************************************************************)
(* Model of rnn_sac/sac_lstm/sac.py: the SAC trainer (class SAC).          *)
(*                                                                         *)
(* The trainer is one sequential process; pc is its position.  The         *)
(* networks (ActorCritic), the buffer (EpisodicBuffer), the logger and the *)
(* environments are collaborators whose code is not part of sac.py: the    *)
(* network outputs and the environment's answers are inputs drawn from     *)
(* small sets, the buffer is modelled by its contract (store appends to    *)
(* the open path, finish_path closes it, reset empties the buffer, get     *)
(* returns batch_size episodes).                                           *)
(*                                                                         *)
(* A network parameter is a storage cell (an integer id) with a value and  *)
(* a requires_grad flag.  Values are fixed-point numbers: the integer v    *)
(* stands for v / Scale, so that polyak averaging with the rational        *)
(* coefficient PolyakNum / PolyakDen is exact.                             *)
(***************************************************************************)
EXTENDS Integers, Sequences, FiniteSets, TLC

\* ------------------------------------------------------------------ bounds
MaxEpLen == 2
MaxTraj == 2
MaxEpochs == 2
MaxBatch == 2
MaxCalls == 2
MaxUpdates == 8

\* polyak = PolyakNum / PolyakDen, a constructor argument
PolyakNum == 3
PolyakDen == 4

\* ------------------------------------------------------- collaborators' data
Actions == {0, 1}            \* env.action_space: discrete actions
Rewards == {0, 1}            \* rewards the environment may return
Hiddens == {0, 1}            \* recurrent state: 0 is the all-zero vector
EnvIds == {1, 2}             \* environment objects
TrainEnvs == {1}             \* the environment train_agent is handed
Grads == {-1, 1}             \* direction of an optimizer step
StartSteps == {0, 1}         \* start_steps: warm-up steps with random actions
TestEpisodes == {1, 2}       \* num_test_episodes
RandomInits == {0, 1}        \* random_init

Modules == {"pi", "memory", "q1", "q2"}
ModSeq == <<"pi", "memory", "q1", "q2">>
NumParams == Cardinality(Modules)
Storage == 1 .. (2 * NumParams)

RECURSIVE Pow(_, _)
Pow(b, n) == IF n = 0 THEN 1 ELSE b * Pow(b, n - 1)

\* every update() ends with one smoothing pass; Scale keeps MaxUpdates of them
\* exact
Scale == Pow(PolyakDen, MaxUpdates)

VARIABLES
    cfg,            \* constructor arguments kept in self
    grad,           \* direction the losses' gradients point to (networks and data)
    pc,             \* position of the trainer
    calls,          \* number of train_agent / test_agent calls made
    env,            \* self.env
    test_env,       \* self.test_env (0: not set)
    ac,             \* self.ac: module -> storage of its parameter
    ac_targ,        \* self.ac_targ: module -> storage of its parameter
    val,            \* storage -> value (fixed point, times Scale)
    req,            \* storage -> requires_grad
    q_params,       \* self.q_params: what the itertools.chain iterator still yields
    pi_params,      \* self.pi_params: likewise
    q_opt,          \* parameters held by self.q_optimizer
    pi_opt,         \* parameters held by self.pi_optimizer
    alpha,          \* self.alpha
    log_alpha,      \* self.log_alpha (annealing only)
    sched,          \* scheduler steps: [pi |-> n, q |-> n]
    current_epoch,  \* self.current_epoch
    global_steps,   \* self.global_steps
    loc,            \* locals of the running train_agent / test_agent
    buf,            \* the EpisodicBuffer: see EmptyBuffer
    upd,            \* locals of the running update()
    obs             \* observation points: last store call, counters, env use

vars == <<cfg, grad, pc, calls, env, test_env, ac, ac_targ, val, req, q_params,
          pi_params, q_opt, pi_opt, alpha, log_alpha, sched, current_epoch,
          global_steps, loc, buf, upd, obs>>

\* ------------------------------------------------------------ alpha values
\* A number is [kind, num, den]: a Python float num/den, a float32 tensor with
\* the value num/den, or exp(log_alpha) with log_alpha = num.
PyFloat(n, d) == [kind |-> "float", num |-> n, den |-> d]

\* float32 keeps 24 significant bits: n/d is rounded to the nearest multiple of
\* 1/p, p the least power of two with 2^23 <= (n/d) * p
MantissaLow == Pow(2, 23)

RECURSIVE Float32Round(_, _, _)
Float32Round(n, d, p) ==
    IF n * p >= d * MantissaLow
    THEN [kind |-> "tensor", num |-> (2 * n * p + d) \div (2 * d), den |-> p]
    ELSE Float32Round(n, d, 2 * p)

\* torch.tensor(n/d): the value rounded to the nearest float32
Tensor32(n, d) == Float32Round(n, d, 1)

ExpOf(k) == [kind |-> "exp", num |-> k, den |-> 1]

\* alpha as it enters a float32 tensor expression (self.alpha * logp_a2,
\* self.alpha * entropy): a Python scalar is cast to the tensor's dtype
AlphaUsed(a) == IF a.kind = "float" THEN Tensor32(a.num, a.den) ELSE a

NoAlpha == [kind |-> "none", num |-> 0, den |-> 1]

\* ------------------------------------------------------------- the buffer
\* The buffer is [path, episodes, size, epochs]: the transitions on the open
\* path, the number of finished episodes, the transitions in them, and the
\* epochs (self.current_epoch) whose transitions it holds.
EmptyBuffer == [path |-> 0, episodes |-> 0, size |-> 0, epochs |-> {}]
\* EpisodicBuffer.store: one more transition on the open path
BufStore(b, e) == [b EXCEPT !.path = @ + 1, !.epochs = @ \cup {e}]
\* EpisodicBuffer.finish_path: the open path becomes an episode
BufFinish(b) ==
    [b EXCEPT !.path = 0, !.episodes = @ + 1, !.size = @ + b.path]
\* EpisodicBuffer.reset: nothing is kept
BufReset(b) == EmptyBuffer
\* EpisodicBuffer.get(batch_size, p_exploration): batch_size whole episodes
BufGet(b, n) == n

\* the transitions the buffer holds
BufSize(b) == b.path + b.size

\* ------------------------------------------------------------ construction
Configs ==
    [max_ep_len : 1 .. MaxEpLen,
     number_of_trajectories : 1 .. MaxTraj,
     update_every : 1 .. MaxTraj,
     epochs : 1 .. MaxEpochs,
     start_steps : StartSteps,
     batch_size : 1 .. MaxBatch,
     use_alpha_annealing : BOOLEAN]

\* create_or_load_model: the online network, one parameter per module
CreateModel == [m \in Modules |-> CHOOSE i \in 1 .. NumParams : ModSeq[i] = m]
CreateVal(m) == (CHOOSE i \in 1 .. NumParams : ModSeq[i] = m) * Scale

\* copy.deepcopy(self.ac): every parameter gets storage of its own
DeepCopyAliased(model) == model
DeepCopy(model) == [m \in Modules |-> model[m] + NumParams]

\* itertools.chain(a.parameters(), b.parameters()): a one-shot iterator
Chain(model, a, b) == <<model[a], model[b]>>
\* Adam(params): the constructor lists the iterable, which exhausts an iterator
AdamParams(it) == {it[i] : i \in 1 .. Len(it)}
Exhausted(it) == SubSeq(it, Len(it) + 1, Len(it))

NoLoc ==
    [epoch |-> 0, tr |-> 0, ep |-> 0, d |-> FALSE, ep_len |-> 0, a2 |-> 0,
     r2 |-> 0, h_out |-> 0, h |-> 0, n_eps |-> 0, random_init |-> 0]

NoUpd ==
    [left |-> 0, old_targ |-> [m \in Modules |-> 0], passes |-> 0,
     alpha_q |-> NoAlpha, alpha_pi |-> NoAlpha, alpha_loss |-> 0,
     loss_alpha_logged |-> FALSE, episodes |-> 0]

\* Observation of a buffer.store call (obs.store) and of a get_action call
\* (obs.net): the done flag stored, what the environment answered (env_done:
\* terminated or truncated; at_max: the step count reached max_ep_len), whether
\* finish_path followed the store, and, for the first step of a trajectory, the
\* previous action, previous reward and hidden state the call was given.
NoCall ==
    [valid |-> FALSE, d |-> FALSE, env_done |-> FALSE, at_max |-> FALSE,
     fin |-> FALSE, first |-> FALSE, prev_act |-> 0, prev_rew |-> 0, hid |-> 0]
NoStore == NoCall

FirstOnly(first, prev_act, prev_rew, hid) ==
    IF first
    THEN [NoCall EXCEPT !.valid = TRUE, !.first = TRUE, !.prev_act = prev_act,
                        !.prev_rew = prev_rew, !.hid = hid]
    ELSE [NoCall EXCEPT !.valid = TRUE]

NoObs ==
    [store |-> NoStore, net |-> NoCall, started |-> 0, finish_calls |-> 0,
     updates |-> 0, total_updates |-> 0, carry |-> 0, epoch0 |-> 0,
     reset_env |-> 0, step_env |-> 0]

\* obs, the observation points of the running call:
\*   store, net    the last buffer.store and get_action calls of the current step
\*   started       trajectories train_agent has started
\*   finish_calls  buffer.finish_path() calls
\*   updates       update() calls in the current epoch
\*   total_updates update() calls since construction
\*   carry         the hidden state the last finished trajectory ended with
\*   epoch0        self.current_epoch when train_agent was called
\*   reset_env, step_env   the environment last reset, last stepped

Init ==
    /\ cfg \in Configs
    /\ grad \in Grads
    /\ pc = "idle"
    /\ calls = 0
    /\ env = 1
    /\ test_env = 0
    /\ ac = CreateModel
    /\ ac_targ = DeepCopy(ac)
    /\ val = [s \in Storage |->
                IF \E m \in Modules : s \in {ac[m], ac_targ[m]}
                THEN CreateVal(CHOOSE m \in Modules : s \in {ac[m], ac_targ[m]})
                ELSE 0]
    /\ req = [s \in Storage |-> s \notin {ac_targ[m] : m \in Modules}]
    /\ alpha = IF cfg.use_alpha_annealing THEN ExpOf(0) ELSE PyFloat(1, 5)
    /\ log_alpha = 0
    /\ pi_opt = AdamParams(Chain(ac, "pi", "memory"))
    /\ pi_params = Exhausted(Chain(ac, "pi", "memory"))
    /\ q_opt = AdamParams(Chain(ac, "q1", "q2"))
    /\ q_params = Exhausted(Chain(ac, "q1", "q2"))
    /\ sched = [pi |-> 0, q |-> 0]
    /\ current_epoch = 0
    /\ global_steps = 0
    /\ loc = NoLoc
    /\ buf = EmptyBuffer
    /\ upd = NoUpd
    /\ obs = NoObs

\* ------------------------------------------------------------ train_agent
\* the condition of both rollout loops: while not(d or (ep_len == self.max_ep_len))
Rolling == ~(loc.d \/ loc.ep_len = cfg.max_ep_len)

\* update() calls one train_agent call makes
UpdatesPerCall == cfg.epochs * (cfg.number_of_trajectories \div cfg.update_every)

TrainAgent ==
    /\ pc = "idle"
    /\ calls < MaxCalls
    /\ obs.total_updates + UpdatesPerCall <= MaxUpdates
    /\ \E e \in TrainEnvs : env' = e
    /\ calls' = calls + 1
    /\ loc' = [NoLoc EXCEPT !.a2 = 0, !.r2 = 0, !.epoch = 0]
    /\ obs' = [NoObs EXCEPT !.epoch0 = current_epoch,
                            !.total_updates = obs.total_updates]
    /\ pc' = "epoch"
    /\ UNCHANGED <<cfg, grad, test_env, ac, ac_targ, val, req, q_params, pi_params,
                   q_opt, pi_opt, alpha, log_alpha, sched, current_epoch,
                   global_steps, buf, upd>>

\* for epoch in range(self.epochs): the hidden state is zeroed.  h_in is not
\* kept between steps: the loop body assigns it (h_in = h_out) before it reads it.
EpochHeadNoReset ==
    /\ pc = "epoch"
    /\ loc.epoch < cfg.epochs
    /\ loc' = [loc EXCEPT !.tr = 0]
    /\ obs' = [obs EXCEPT !.updates = 0]
    /\ pc' = "traj"
    /\ UNCHANGED <<cfg, grad, calls, env, test_env, ac, ac_targ, val, req, q_params,
                   pi_params, q_opt, pi_opt, alpha, log_alpha, sched,
                   current_epoch, global_steps, buf, upd>>

EpochHead ==
    /\ pc = "epoch"
    /\ loc.epoch < cfg.epochs
    /\ loc' = [loc EXCEPT !.h_out = 0, !.tr = 0]
    /\ obs' = [obs EXCEPT !.updates = 0]
    /\ pc' = "traj"
    /\ UNCHANGED <<cfg, grad, calls, env, test_env, ac, ac_targ, val, req, q_params,
                   pi_params, q_opt, pi_opt, alpha, log_alpha, sched,
                   current_epoch, global_steps, buf, upd>>

\* the epoch loop is over: train_agent returns
TrainReturn ==
    /\ pc = "epoch"
    /\ loc.epoch = cfg.epochs
    /\ loc' = NoLoc
    /\ pc' = "idle"
    /\ obs' = [obs EXCEPT !.store = NoStore, !.net = NoCall, !.carry = 0]
    /\ UNCHANGED <<cfg, grad, calls, env, test_env, ac, ac_targ, val, req, q_params,
                   pi_params, q_opt, pi_opt, alpha, log_alpha, sched,
                   current_epoch, global_steps, buf, upd>>

\* for tr in range(self.number_of_trajectories): locals and self.env.reset()
TrajHead ==
    /\ pc = "traj"
    /\ loc.tr < cfg.number_of_trajectories
    /\ loc' = [loc EXCEPT !.d = FALSE, !.ep_len = 0]
    /\ obs' = [obs EXCEPT !.started = @ + 1, !.reset_env = env,
                          !.store = NoStore, !.net = NoCall]
    /\ pc' = "step"
    /\ UNCHANGED <<cfg, grad, calls, env, test_env, ac, ac_targ, val, req, q_params,
                   pi_params, q_opt, pi_opt, alpha, log_alpha, sched,
                   current_epoch, global_steps, buf, upd>>

\* d = ter or trunc
DoneFlag(ter, trunc) == ter \/ trunc

\* d = False if ep_len == self.max_ep_len else d
IgnoreHorizonKeepDone(d, ep_len) == d
IgnoreHorizon(d, ep_len) == IF ep_len = cfg.max_ep_len THEN FALSE ELSE d

\* "End of trajectory handling": if d or (ep_len == self.max_ep_len)
EndOfTrajectoryOnDoneOnly(d, ep_len) == d
EndOfTrajectory(d, ep_len) == d \/ ep_len = cfg.max_ep_len

\* one pass through the body of the rollout loop
StepBody(a, hid, r, ter, trunc) ==
    LET h_in == loc.h_out
        policy == global_steps > cfg.start_steps
        h_out == IF policy THEN hid ELSE loc.h_out
        ep_len == loc.ep_len + 1
        d0 == DoneFlag(ter, trunc)
        d == IgnoreHorizon(d0, ep_len)
        fin == EndOfTrajectory(d, ep_len)
        stored == BufStore(buf, current_epoch)
    IN  /\ loc' = [loc EXCEPT !.h_out = h_out, !.d = d,
                              !.ep_len = ep_len, !.a2 = a, !.r2 = r]
        /\ buf' = IF fin THEN BufFinish(stored) ELSE stored
        /\ global_steps' = global_steps + 1
        /\ obs' = [obs EXCEPT
                     !.store = [FirstOnly(loc.ep_len = 0, loc.a2, loc.r2, h_in)
                                  EXCEPT !.d = d, !.env_done = d0, !.fin = fin,
                                         !.at_max = ep_len = cfg.max_ep_len],
                     !.net = IF policy
                             THEN FirstOnly(loc.ep_len = 0, loc.a2, loc.r2, h_in)
                             ELSE NoCall,
                     !.finish_calls = IF fin THEN @ + 1 ELSE @,
                     !.step_env = env]

Step ==
    /\ pc = "step"
    /\ Rolling
    /\ \E a \in Actions, hid \in Hiddens, r \in Rewards, ter \in BOOLEAN, trunc \in BOOLEAN :
          StepBody(a, hid, r, ter, trunc)
    /\ UNCHANGED <<cfg, grad, pc, calls, env, test_env, ac, ac_targ, val, req,
                   q_params, pi_params, q_opt, pi_opt, alpha, log_alpha, sched,
                   current_epoch, upd>>

\* the rollout loop is left; "Update handling"
UpdateDueZeroBased == loc.tr >= cfg.update_every /\ loc.tr % cfg.update_every = 0
UpdateDue == (loc.tr + 1) >= cfg.update_every /\ (loc.tr + 1) % cfg.update_every = 0

TrajEnd ==
    /\ pc = "step"
    /\ ~Rolling
    /\ IF UpdateDue
       THEN pc' = "update" /\ loc' = loc
       ELSE pc' = "traj" /\ loc' = [loc EXCEPT !.tr = @ + 1]
    /\ obs' = [obs EXCEPT !.store = NoStore, !.net = NoCall, !.carry = loc.h_out]
    /\ UNCHANGED <<cfg, grad, calls, env, test_env, ac, ac_targ, val, req, q_params,
                   pi_params, q_opt, pi_opt, alpha, log_alpha, sched,
                   current_epoch, global_steps, buf, upd>>

\* after the trajectory loop: buffer.reset(), current_epoch, both schedulers
EpochEndKeepBuffer ==
    /\ pc = "traj"
    /\ loc.tr = cfg.number_of_trajectories
    /\ current_epoch' = current_epoch + 1
    /\ sched' = [pi |-> sched.pi + 1, q |-> sched.q + 1]
    /\ loc' = [loc EXCEPT !.epoch = @ + 1]
    /\ pc' = "epoch"
    /\ UNCHANGED <<cfg, grad, calls, env, test_env, ac, ac_targ, val, req, q_params,
                   pi_params, q_opt, pi_opt, alpha, log_alpha, global_steps, buf,
                   upd, obs>>

EpochEnd ==
    /\ pc = "traj"
    /\ loc.tr = cfg.number_of_trajectories
    /\ buf' = BufReset(buf)
    /\ current_epoch' = current_epoch + 1
    /\ sched' = [pi |-> sched.pi + 1, q |-> sched.q + 1]
    /\ loc' = [loc EXCEPT !.epoch = @ + 1]
    /\ pc' = "epoch"
    /\ UNCHANGED <<cfg, grad, calls, env, test_env, ac, ac_targ, val, req, q_params,
                   pi_params, q_opt, pi_opt, alpha, log_alpha, global_steps, upd, obs>>

\* ------------------------------------------------------------------ update
\* optimizer.step(): the optimizer's parameters that have a gradient move by
\* one step against it
OptimizerStep(params, v) ==
    [s \in Storage |-> IF s \in params /\ req[s] THEN v[s] - grad * Scale ELSE v[s]]

\* for p in it: p.requires_grad = flag   (the loop uses up what it still yields)
SetRequiresGrad(it, r, flag) ==
    [s \in Storage |-> IF s \in AdamParams(it) THEN flag ELSE r[s]]

\* p_targ.data.mul_(self.polyak)
PolyakMulNotInPlace(t) == t
PolyakMul(t) == (t * PolyakNum) \div PolyakDen
\* p_targ.data.add_((1 - self.polyak) * p.data)
PolyakAdd(t, o) == t + ((PolyakDen - PolyakNum) * o) \div PolyakDen

\* for p, p_targ in zip(self.ac.parameters(), self.ac_targ.parameters())
SmoothTargets(v) ==
    [s \in Storage |->
        IF \E m \in Modules : ac_targ[m] = s
        THEN LET m == CHOOSE mm \in Modules : ac_targ[mm] = s
             IN  PolyakAdd(PolyakMul(v[s]), v[ac[m]])
        ELSE v[s]]

\* else-branch of "Optimize the alpha": self.alpha = torch.tensor(0.2)
FixedAlphaTypo == Tensor32(1, 50)
FixedAlpha == Tensor32(1, 5)

\* self.update(): batch = self.buffer.get(self.batch_size, p_exploration=0.1);
\* the batch holds batch_size >= 1 episodes, so the episode loop is entered
UpdateBegin ==
    /\ pc = "update"
    /\ upd' = [NoUpd EXCEPT !.left = BufGet(buf, cfg.batch_size),
                            !.old_targ = [m \in Modules |-> val[ac_targ[m]]]]
    /\ obs' = [obs EXCEPT !.updates = @ + 1, !.total_updates = @ + 1]
    /\ pc' = "critic"
    /\ UNCHANGED <<cfg, grad, calls, env, test_env, ac, ac_targ, val, req, q_params,
                   pi_params, q_opt, pi_opt, alpha, log_alpha, sched,
                   current_epoch, global_steps, loc, buf>>

\* compute_critic_loss, zero_grad, backward, clip, self.q_optimizer.step()
CriticStep ==
    /\ pc = "critic"
    /\ upd' = [upd EXCEPT !.alpha_q = AlphaUsed(alpha), !.episodes = @ + 1]
    /\ val' = OptimizerStep(q_opt, val)
    /\ pc' = "freeze"
    /\ UNCHANGED <<cfg, grad, calls, env, test_env, ac, ac_targ, req, q_params,
                   pi_params, q_opt, pi_opt, alpha, log_alpha, sched,
                   current_epoch, global_steps, loc, buf, obs>>

\* for p in self.q_params: p.requires_grad = False
FreezeQ ==
    /\ pc = "freeze"
    /\ req' = SetRequiresGrad(q_params, req, FALSE)
    /\ q_params' = Exhausted(q_params)
    /\ pc' = "policy"
    /\ UNCHANGED <<cfg, grad, calls, env, test_env, ac, ac_targ, val, pi_params,
                   q_opt, pi_opt, alpha, log_alpha, sched, current_epoch,
                   global_steps, loc, buf, upd, obs>>

\* zero_grad, compute_policy_loss, backward, clip, self.pi_optimizer.step()
PolicyStep ==
    /\ pc = "policy"
    /\ upd' = [upd EXCEPT !.alpha_pi = AlphaUsed(alpha)]
    /\ val' = OptimizerStep(pi_opt, val)
    /\ pc' = "unfreeze"
    /\ UNCHANGED <<cfg, grad, calls, env, test_env, ac, ac_targ, req, q_params,
                   pi_params, q_opt, pi_opt, alpha, log_alpha, sched,
                   current_epoch, global_steps, loc, buf, obs>>

\* for p in self.q_params: p.requires_grad = True
UnfreezeQ ==
    /\ pc = "unfreeze"
    /\ req' = SetRequiresGrad(q_params, req, TRUE)
    /\ q_params' = Exhausted(q_params)
    /\ pc' = "alpha"
    /\ UNCHANGED <<cfg, grad, calls, env, test_env, ac, ac_targ, val, pi_params,
                   q_opt, pi_opt, alpha, log_alpha, sched, current_epoch,
                   global_steps, loc, buf, upd, obs>>

\* "Optimize the alpha", then the next episode of the batch
AlphaStep ==
    /\ pc = "alpha"
    /\ IF cfg.use_alpha_annealing
       THEN /\ log_alpha' = log_alpha + grad
            /\ alpha' = ExpOf(log_alpha')
            /\ upd' = [upd EXCEPT !.alpha_loss = -(log_alpha * grad), !.left = @ - 1]
       ELSE /\ log_alpha' = log_alpha
            /\ alpha' = FixedAlpha
            /\ upd' = [upd EXCEPT !.alpha_loss = 0, !.left = @ - 1]
    /\ pc' = IF upd.left - 1 > 0 THEN "critic" ELSE "smooth"
    /\ UNCHANGED <<cfg, grad, calls, env, test_env, ac, ac_targ, val, req, q_params,
                   pi_params, q_opt, pi_opt, sched, current_epoch, global_steps,
                   loc, buf, obs>>

\* logger.store(LossAlpha=..., Alpha=...), then the polyak averaging of the targets
Smooth ==
    /\ pc = "smooth"
    /\ val' = SmoothTargets(val)
    /\ upd' = [upd EXCEPT !.passes = @ + 1, !.loss_alpha_logged = TRUE]
    /\ pc' = "log"
    /\ UNCHANGED <<cfg, grad, calls, env, test_env, ac, ac_targ, req, q_params,
                   pi_params, q_opt, pi_opt, alpha, log_alpha, sched,
                   current_epoch, global_steps, loc, buf, obs>>

\* update() has returned: self._log_trial(epoch, tr, start_time), next trajectory
LogTrial ==
    /\ pc = "log"
    /\ upd' = NoUpd
    /\ loc' = [loc EXCEPT !.tr = @ + 1]
    /\ pc' = "traj"
    /\ UNCHANGED <<cfg, grad, calls, env, test_env, ac, ac_targ, val, req, q_params,
                   pi_params, q_opt, pi_opt, alpha, log_alpha, sched,
                   current_epoch, global_steps, buf, obs>>

\* ------------------------------------------------------------- test_agent
TestAgent ==
    /\ pc = "idle"
    /\ calls < MaxCalls
    /\ \E e \in EnvIds : test_env' = e
    /\ \E n \in TestEpisodes, ri \in RandomInits :
          loc' = [NoLoc EXCEPT !.h = 0, !.a2 = 0, !.r2 = 0, !.ep = 0,
                               !.n_eps = n, !.random_init = ri]
    /\ calls' = calls + 1
    /\ obs' = [NoObs EXCEPT !.total_updates = obs.total_updates]
    /\ pc' = "test_ep"
    /\ UNCHANGED <<cfg, grad, env, ac, ac_targ, val, req, q_params, pi_params,
                   q_opt, pi_opt, alpha, log_alpha, sched, current_epoch,
                   global_steps, buf, upd>>

\* for ep in range(num_test_episodes): reset, locals, the random warm-up steps
TestEpHead ==
    /\ pc = "test_ep"
    /\ loc.ep < loc.n_eps
    /\ loc' = [loc EXCEPT !.d = FALSE, !.ep_len = 0]
    /\ obs' = [obs EXCEPT !.reset_env = test_env,
                          !.step_env = IF loc.random_init > 0 THEN env ELSE @,
                          !.net = NoCall]
    /\ pc' = "test_step"
    /\ UNCHANGED <<cfg, grad, calls, env, test_env, ac, ac_targ, val, req, q_params,
                   pi_params, q_opt, pi_opt, alpha, log_alpha, sched,
                   current_epoch, global_steps, buf, upd>>

\* one pass through the body of the evaluation loop
TestStep ==
    /\ pc = "test_step"
    /\ Rolling
    /\ \E a \in Actions, hid \in Hiddens, r \in Rewards, ter \in BOOLEAN, trunc \in BOOLEAN :
          /\ loc' = [loc EXCEPT !.h = hid, !.d = DoneFlag(ter, trunc), !.r2 = r,
                                !.a2 = a, !.ep_len = @ + 1]
          /\ obs' = [obs EXCEPT
                       !.net = FirstOnly(loc.ep_len = 0, loc.a2, loc.r2, loc.h),
                       !.step_env = env]
    /\ UNCHANGED <<cfg, grad, pc, calls, env, test_env, ac, ac_targ, val, req,
                   q_params, pi_params, q_opt, pi_opt, alpha, log_alpha, sched,
                   current_epoch, global_steps, buf, upd>>

\* the evaluation loop is left: logger.store(TestEpRew, TestEpLen)
TestEpEnd ==
    /\ pc = "test_step"
    /\ ~Rolling
    /\ loc' = [loc EXCEPT !.ep = @ + 1]
    /\ obs' = [obs EXCEPT !.net = NoCall, !.carry = loc.h]
    /\ pc' = "test_ep"
    /\ UNCHANGED <<cfg, grad, calls, env, test_env, ac, ac_targ, val, req, q_params,
                   pi_params, q_opt, pi_opt, alpha, log_alpha, sched,
                   current_epoch, global_steps, buf, upd>>

\* self._log_test_trial(...); return observations, rewards
TestReturn ==
    /\ pc = "test_ep"
    /\ loc.ep = loc.n_eps
    /\ loc' = NoLoc
    /\ obs' = [obs EXCEPT !.net = NoCall, !.carry = 0]
    /\ pc' = "idle"
    /\ UNCHANGED <<cfg, grad, calls, env, test_env, ac, ac_targ, val, req, q_params,
                   pi_params, q_opt, pi_opt, alpha, log_alpha, sched,
                   current_epoch, global_steps, buf, upd>>

\* ---------------------------------------------------------- specification
Next ==
    \/ TrainAgent \/ EpochHead \/ TrainReturn \/ TrajHead \/ Step \/ TrajEnd
    \/ EpochEnd
    \/ UpdateBegin \/ CriticStep \/ FreezeQ \/ PolicyStep \/ UnfreezeQ
    \/ AlphaStep \/ Smooth \/ LogTrial
    \/ TestAgent \/ TestEpHead \/ TestStep \/ TestEpEnd \/ TestReturn

Spec == Init /\ [][Next]_vars

\* ------------------------------------------------------------------ claims
UpdatePcs == {"critic", "freeze", "policy", "unfreeze", "alpha", "smooth"}
OnlineStorage == {ac[m] : m \in Modules}
TargetStorage == {ac_targ[m] : m \in Modules}
CriticStorage == {ac["q1"], ac["q2"]}

\* trajectories of the running train_agent whose rollout loop has been left
Completed == obs.started - (IF pc = "step" /\ Rolling THEN 1 ELSE 0)

\* C1: in train_agent, finish_path is called exactly once per trajectory, at the
\* step where the environment reports done or the step count reaches
\* max_ep_len: a store is followed by finish_path exactly at such a step, and
\* the number of finish_path calls equals the number of completed trajectories.
C1_FinishPathOncePerTrajectory ==
    /\ obs.finish_calls = Completed
    /\ obs.store.valid =>
          (obs.store.fin <=> (obs.store.env_done \/ obs.store.at_max))

\* a second trajectory that the environment ended on its very first step
C1_Witness ==
    /\ cfg.max_ep_len = 2
    /\ obs.store.valid /\ obs.store.first /\ obs.store.env_done
    /\ obs.started = 2 /\ obs.finish_calls = 2

\* C2: the done flag stored with a transition is false at the step where the
\* step count equals max_ep_len, whatever the environment returned, and equals
\* (terminated or truncated) at every other step.
C2_StoredDoneFlag ==
    obs.store.valid =>
        obs.store.d = (IF obs.store.at_max THEN FALSE ELSE obs.store.env_done)

\* the environment reports done at the step that reaches max_ep_len
C2_Witness ==
    obs.store.valid /\ obs.store.at_max /\ obs.store.env_done /\ ~obs.store.d

\* C3: in every update(), for each episode: after the critic optimizer step and
\* until the policy optimizer step has been applied, every parameter of q1 and
\* q2 has requires_grad = False, and it has requires_grad = True again before
\* the next episode's critic step.
C3_CriticsFrozenForPolicyStep ==
    /\ pc \in {"policy", "unfreeze"} => \A s \in CriticStorage : ~req[s]
    /\ pc = "critic" => \A s \in CriticStorage : req[s]

\* C4: right after construction every target parameter equals its online
\* counterpart and shares no storage with it; ever after, every target
\* parameter has requires_grad = False, belongs to no optimizer, and changes
\* its value in the smoothing pass at the end of update() only.
C4_TargetState ==
    /\ TargetStorage \cap OnlineStorage = {}
    /\ \A s \in TargetStorage : ~req[s] /\ s \notin (q_opt \cup pi_opt)
    /\ calls = 0 => \A m \in Modules : val[ac_targ[m]] = val[ac[m]]

C4_TargetChanged == \E m \in Modules : val'[ac_targ'[m]] # val[ac_targ[m]]

C4_TargetsOnlySmoothed ==
    /\ [](C4_TargetState)
    /\ [][C4_TargetChanged => pc = "smooth"]_vars

\* a second call is running, the targets have moved away from the online values
C4_Witness ==
    /\ calls = 2
    /\ pc = "test_step"
    /\ \A m \in Modules : val[ac_targ[m]] # val[ac[m]]

\* C5: each update() performs exactly one target-smoothing pass, after all
\* episodes of the batch: the targets keep their entry values while the
\* episodes are processed, and afterwards every target equals
\* polyak * old_target + (1 - polyak) * online, online being the value after the
\* last episode's optimizer steps.
C5_OneSmoothingPass ==
    /\ pc \in UpdatePcs =>
          /\ upd.passes = 0
          /\ \A m \in Modules : val[ac_targ[m]] = upd.old_targ[m]
    /\ pc = "log" =>
          /\ upd.passes = 1
          /\ \A m \in Modules :
                PolyakDen * val[ac_targ[m]] =
                    PolyakNum * upd.old_targ[m] + (PolyakDen - PolyakNum) * val[ac[m]]

\* a later update() of a batch of two episodes: the old targets are no longer
\* the initial copy
C5_Witness ==
    /\ pc = "log"
    /\ upd.episodes = 2
    /\ \A m \in Modules : upd.old_targ[m] # CreateVal(m)
    /\ \A m \in Modules : val[ac_targ[m]] # upd.old_targ[m]

\* the first steps of trajectories: what the network was called with, and what
\* train_agent stored with the first transition
FirstCalls == {c \in {obs.net, obs.store} : c.valid /\ c.first}

\* C6 (as stated): in train_agent and in test_agent, the hidden state given to
\* the network at the first step of every trajectory is the all-zero vector.
C6_HiddenZeroEveryTrajectory ==
    obs.net.valid /\ obs.net.first => obs.net.hid = 0

\* C6 (amended): the hidden state is zeroed at the start of every epoch of
\* train_agent and once at the start of a test_agent call: the first step of the
\* first trajectory of an epoch (of the call) is given the all-zero vector, the
\* first step of every later trajectory is given the hidden state the preceding
\* trajectory ended with.
C6_HiddenZeroEveryEpoch ==
    \A c \in FirstCalls :
        /\ pc = "step" => c.hid = (IF loc.tr = 0 THEN 0 ELSE obs.carry)
        /\ pc = "test_step" => c.hid = (IF loc.ep = 0 THEN 0 ELSE obs.carry)

\* the second epoch starts after an epoch that ended with a non-zero hidden state
C6_Witness ==
    /\ pc = "step"
    /\ loc.epoch = 1 /\ loc.tr = 0
    /\ obs.carry # 0
    /\ obs.net.valid /\ obs.net.first /\ obs.net.hid = 0

\* C7: for every trajectory of train_agent, the prev_action and prev_reward
\* passed to the policy at its first step and stored with its first transition
\* are 0 and 0, whatever the preceding trajectory ended with.
C7_FreshCarryEveryTrajectory ==
    pc = "step" => \A c \in FirstCalls : c.prev_act = 0 /\ c.prev_rew = 0

\* C8: update() runs only between trajectories: when it starts, the trajectory
\* just rolled out has been finalized and no store is pending; it runs exactly
\* once after each trajectory whose 1-based index in the epoch is a multiple of
\* update_every and at no other time, floor(number_of_trajectories /
\* update_every) times in an epoch.
C8_UpdateBetweenTrajectories ==
    /\ pc \in UpdatePcs \cup {"update", "log"} =>
          /\ ~Rolling
          /\ buf.path = 0
          /\ buf.episodes = loc.tr + 1
          /\ obs.finish_calls = obs.started
          /\ (loc.tr + 1) % cfg.update_every = 0
          /\ obs.updates = (loc.tr + 1) \div cfg.update_every
                              - (IF pc = "update" THEN 1 ELSE 0)
    /\ pc \in {"traj", "step"} => obs.updates = loc.tr \div cfg.update_every
    /\ pc = "step" /\ ~Rolling /\ (loc.tr + 1) % cfg.update_every # 0 =>
          obs.updates = (loc.tr + 1) \div cfg.update_every

\* update_every = 2: the update after the second trajectory of an epoch starts
C8_Witness ==
    /\ pc = "update"
    /\ cfg.update_every = 2 /\ cfg.number_of_trajectories = 2
    /\ loc.tr = 1 /\ obs.updates = 0

\* C9: at the end of every epoch of train_agent the buffer is reset and both
\* learning-rate schedulers step once; no transition stored in one epoch is in
\* the buffer in a later epoch, and the buffer is empty when train_agent has
\* returned.
C9_EpochEnd ==
    /\ buf.epochs \subseteq {current_epoch}
    /\ pc \in {"idle", "epoch", "test_ep", "test_step"} => BufSize(buf) = 0 /\ buf.episodes = 0
    /\ pc \in UpdatePcs \cup {"epoch", "traj", "step", "update", "log"} =>
          /\ current_epoch = obs.epoch0 + loc.epoch
          /\ sched.pi = current_epoch
          /\ sched.q = current_epoch

\* the update of a second epoch reads a buffer that holds that epoch only
C9_Witness ==
    /\ pc = "update"
    /\ loc.epoch = 1
    /\ buf.episodes = 2 /\ buf.epochs = {current_epoch}
    /\ sched.pi = 1 /\ sched.q = 1

\* C10: with use_alpha_annealing disabled, alpha is the constant 0.2 in every
\* reachable state: the alpha that enters the critic loss and the policy loss
\* of every episode is that constant, and the alpha loss each update() reports
\* is zero.
C10_PointTwo == Tensor32(1, 5)

C10_AlphaFixed ==
    ~cfg.use_alpha_annealing =>
        /\ AlphaUsed(alpha) = C10_PointTwo
        /\ upd.alpha_q \in {NoAlpha, C10_PointTwo}
        /\ upd.alpha_pi \in {NoAlpha, C10_PointTwo}
        /\ pc \in {"critic", "freeze"} /\ upd.episodes > 0 => upd.alpha_q # NoAlpha
        /\ pc = "unfreeze" => upd.alpha_pi # NoAlpha
        /\ upd.loss_alpha_logged => upd.alpha_loss = 0

\* the second episode of a later update(): alpha has been assigned in update()
C10_Witness ==
    /\ ~cfg.use_alpha_annealing
    /\ pc = "log"
    /\ upd.episodes = 2 /\ upd.loss_alpha_logged
    /\ loc.epoch = 1
    /\ alpha.kind = "tensor" /\ upd.alpha_pi = C10_PointTwo


\* C11: in test_agent, every environment step of an evaluated trajectory, the
\* random warm-up steps and the policy-driven steps alike, is applied to the
\* environment passed as test_env, the one reset at the start of the
\* trajectory; the environment held from training (self.env) is not stepped by
\* the evaluation when test_env is a different object.
C11_EvaluationStepsTestEnv ==
    pc \in {"test_ep", "test_step"} /\ obs.step_env # 0 =>
        /\ obs.step_env = test_env
        /\ obs.step_env = obs.reset_env
        /\ env # test_env => obs.step_env # env

====
